---- MODULE Spec2Model ----
(***************************************************************************)
(* The hierarchical event bus (HEB) of evdm, src/src/evdm/bus.py, running  *)
(* on one asyncio event loop together with a driver coroutine (the code    *)
(* that constructs the bus, registers actors, publishes and closes, as in  *)
(* tests/test_bus.py and scripts/example.py) and four actors.  As in those *)
(* programs the driver registers, publishes and sleeps in any order and    *)
(* then shuts the bus down: close is the last thing it calls.              *)
(*                                                                         *)
(* Spec is the bus with actors that use the bus they are handed for put    *)
(* only, as every actor of the repository does.  SpecAnyActor is the bus   *)
(* with the actors the Actor contract admits: act(event, heb) is handed    *)
(* the Event object and the HEB itself, and may use either in full.        *)
(*                                                                         *)
(* The event loop is modelled as asyncio schedules it: a FIFO queue of     *)
(* ready callbacks, of which exactly one runs at a time, and only while    *)
(* the driver coroutine is suspended.  create_task appends the first step  *)
(* of the task to the queue; a task that finishes appends its done         *)
(* callbacks, in the order in which they were added.                       *)
(***************************************************************************)
EXTENDS Integers, Sequences, FiniteSets, TLC

VARIABLES
    listeners,   \* HEB.listeners: bus -> list of actors
    tasks,       \* every asyncio.Task created by put, by creation order
    bg,          \* HEB._background_tasks: set of task ids
    ready,       \* the event loop's FIFO queue of ready callbacks
    closes,      \* one record per HEB.close call: the gather and its outcome
    main,        \* position of the driver coroutine
    items,       \* Tap.items
    closeCalls,  \* actor -> number of times its close() hook was invoked
    err,         \* exception a dispatcher call raised in the driver
    events,      \* the Event objects constructed so far, shared by reference
    putLog,      \* history: one record per successful put
    regAt        \* history: bus -> for each listener, the number of events
                 \* put on the bus before it was registered

vars == <<listeners, tasks, bg, ready, closes, main, items, closeCalls, err,
          events, putLog, regAt>>

----------------------------------------------------------------------------
(* Bounds of the exploration *)

MaxPuts   == 2      \* puts made by the driver
MaxRegs   == 3      \* registrations made by the driver
MaxTasks  == 4      \* tasks created over the whole run

----------------------------------------------------------------------------
(* Data model *)

BusType == {"Memory", "Semantics", "Texts", "AudioSegments", "AudioSignals",
            "Devices"}

\* A value that is not a member of the enumeration.
NotABus == "NotABus"

\* The bus the driver publishes on, as every driver of the repository does
\* (tests/test_bus.py, scripts/example.py, scripts/example-oai-realtime.py).
DriverBuses == {"Devices"}

\* event.data.get("number") when the key is absent
None == -1

\* An actor that uses what act is handed beyond put: the HEB (register,
\* close) and the Event object (assignment to its fields).
AnyActor == "any"

\* The actor instances of a run: the two actors of tests/test_bus.py, an
\* actor whose act raises, an actor whose act suspends on I/O, and the
\* actor above.
Actors == {"inc", "tap", "bad", "slow", AnyActor}

\* The registrations the driver chooses from in SpecAnyActor: Incrementor
\* also on the bus it publishes on, and the actor above next to Tap and to
\* the raising actor.
AnyRegistrations ==
    {<<"inc", "Devices">>, <<"inc", "Texts">>, <<"tap", "Devices">>,
     <<"bad", "Devices">>, <<AnyActor, "Devices">>}

\* The registrations the driver chooses from: the two of tests/test_bus.py,
\* the raising actor next to Incrementor or behind it, and the suspending
\* actor behind it.
Registrations ==
    {<<"inc", "Devices">>, <<"tap", "Texts">>, <<"bad", "Devices">>,
     <<"bad", "Texts">>, <<"slow", "Texts">>}

\* Actors that define a close() hook (DeepgramTranscriber.close).
HasCloseHook == {"slow"}

Finished(t) == tasks[t].status \in {"done", "failed"}

Unfinished == {t \in DOMAIN tasks : ~Finished(t)}

Failed == {t \in DOMAIN tasks : tasks[t].status = "failed"}

\* A ready callback of the loop: a task step, a done callback of task t
\* (the discard of put, or the callback of gather g), or the driver's wakeup.
Cb(type, t, g) == [type |-> type, t |-> t, g |-> g]

\* In a task's list of done callbacks, 0 stands for
\* self._background_tasks.discard and g > 0 for the callback of gather g.
Discard == 0

RECURSIVE SetToSeq(_)
SetToSeq(S) ==
    IF S = {} THEN <<>>
    ELSE LET m == CHOOSE x \in S : \A y \in S : x <= y
         IN  <<m>> \o SetToSeq(S \ {m})

----------------------------------------------------------------------------
(* HEB.__init__ *)

Init ==
    /\ listeners = [b \in BusType |-> <<>>]
    /\ tasks = <<>>
    /\ bg = {}
    /\ ready = <<>>
    /\ closes = <<>>
    /\ main = "run"
    /\ items = <<>>
    /\ closeCalls = [a \in Actors |-> 0]
    /\ err = "none"
    /\ events = <<>>
    /\ putLog = <<>>
    /\ regAt = [b \in BusType |-> <<>>]

----------------------------------------------------------------------------
(* HEB.put: the loop over self.listeners[bus] *)

\* Variant: act has already run to its end when the task is handed back.
NewTaskAwaited(ev, num, bus, pos, by) ==
    [ev |-> ev, num |-> num, bus |-> bus, pos |-> pos,
     actor |-> listeners[bus][pos], by |-> by,
     status |-> "done", cbs |-> <<Discard>>]

\* The task created for the listener at position pos.
NewTask(ev, num, bus, pos, by) ==
    [ev |-> ev, num |-> num, bus |-> bus, pos |-> pos,
     actor |-> listeners[bus][pos], by |-> by,
     status |-> "pending", cbs |-> <<Discard>>]

\* Variant: one task per distinct actor instead of one per list entry.
SpawnedDedup(ev, num, bus, by) ==
    LET ls    == listeners[bus]
        first == {i \in 1..Len(ls) : \A j \in 1..(i - 1) : ls[j] # ls[i]}
        keep  == SetToSeq(first)
    IN  [i \in 1..Len(keep) |-> NewTask(ev, num, bus, keep[i], by)]

\* Variant: act is awaited inside the loop, so the first act that raises
\* ends the loop and the listeners after it get no task.
SpawnedInline(ev, num, bus, by) ==
    LET ls   == listeners[bus]
        bads == {i \in 1..Len(ls) : ls[i] = "bad"}
        last == IF bads = {} THEN Len(ls)
                ELSE CHOOSE i \in bads : \A j \in bads : i <= j
    IN  [pos \in 1..last |-> NewTask(ev, num, bus, pos, by)]

\* Variant: an actor instance gets one task per event, for its last entry in
\* the list, and none when it also listens on another bus.
SpawnedPerInstance(ev, num, bus, by) ==
    LET ls   == listeners[bus]
        last == {i \in 1..Len(ls) :
                    /\ \A j \in (i + 1)..Len(ls) : ls[j] # ls[i]
                    /\ \A b \in DOMAIN listeners \ {bus} :
                          \A j \in DOMAIN listeners[b] :
                             listeners[b][j] # ls[i]}
        keep == SetToSeq(last)
    IN  [i \in 1..Len(keep) |-> NewTask(ev, num, bus, keep[i], by)]

\* Variant: the list of listeners is walked from its end.
SpawnedReversed(ev, num, bus, by) ==
    LET n == Len(listeners[bus])
    IN  [k \in 1..n |-> NewTask(ev, num, bus, n + 1 - k, by)]

\* One task per listener, in list order.
Spawned(ev, num, bus, by) ==
    [pos \in 1..Len(listeners[bus]) |-> NewTask(ev, num, bus, pos, by)]

\* make_event(data): the current time, here the number of events constructed
\* before, and the payload, of which the model keeps the "number" key.
make_event(num) == [created_on |-> Len(events) + 1, number |-> num]

\* Variant: the created tasks are not added to self._background_tasks.
PutEffectUntracked(ts, rq, num, bus, by) ==
    LET ev  == Len(putLog) + 1
        new == Spawned(ev, num, bus, by)
    IN  [tasks |-> ts \o new,
         bg    |-> bg,
         ready |-> rq \o [i \in 1..Len(new) |-> Cb("step", Len(ts) + i, 0)],
         events |-> Append(events, make_event(num)),
         log   |-> Append(putLog,
                      [ev |-> ev, num |-> num, bus |-> bus, by |-> by,
                       ls |-> listeners[bus]])]

\* State of tasks, bg and ready after put(make_event({"number": num}), bus)
\* called from `by` (0 is the driver), given the tasks and queue it starts
\* from.  Every task of the event refers to the one Event object, by its
\* index in events; num in the task and in the log is the payload as it was
\* when the event was put.
PutEffect(ts, rq, num, bus, by) ==
    LET ev  == Len(putLog) + 1
        new == Spawned(ev, num, bus, by)
        ids == (Len(ts) + 1)..(Len(ts) + Len(new))
    IN  [tasks |-> ts \o new,
         bg    |-> bg \cup ids,
         ready |-> rq \o [i \in 1..Len(new) |-> Cb("step", Len(ts) + i, 0)],
         events |-> Append(events, make_event(num)),
         log   |-> Append(putLog,
                      [ev |-> ev, num |-> num, bus |-> bus, by |-> by,
                       ls |-> listeners[bus]])]

DriverPuts == Cardinality({i \in DOMAIN putLog : putLog[i].by = 0})

\* Number of events put on a bus so far, and of registrations made so far.
PutsOn(bus) == Cardinality({i \in DOMAIN putLog : putLog[i].bus = bus})

RECURSIVE SumLen(_, _)
SumLen(f, S) ==
    IF S = {} THEN 0
    ELSE LET b == CHOOSE x \in S : TRUE
         IN  Len(f[b]) + SumLen(f, S \ {b})

Registered == SumLen(listeners, DOMAIN listeners)

RegisteredActors ==
    {a \in Actors : \E b \in DOMAIN listeners :
                       \E i \in DOMAIN listeners[b] : listeners[b][i] = a}

\* Variant: once an act has failed, an event put on the bus is dropped.
PutDropsAfterFailure(bus) ==
    /\ main = "run"
    /\ DriverPuts < MaxPuts
    /\ IF bus \in DOMAIN listeners
       THEN /\ Len(tasks) + Len(listeners[bus]) <= MaxTasks
            /\ LET r == PutEffect(tasks, ready, DriverPuts, bus, 0)
               IN  /\ tasks' = IF Failed = {} THEN r.tasks ELSE tasks
                   /\ bg' = IF Failed = {} THEN r.bg ELSE bg
                   /\ ready' = IF Failed = {} THEN r.ready ELSE ready
                   /\ events' = r.events
                   /\ putLog' = r.log
            /\ UNCHANGED <<main, err>>
       ELSE /\ err' = "KeyError"
            /\ main' = "crashed"
            /\ UNCHANGED <<tasks, bg, ready, events, putLog>>
    /\ UNCHANGED <<listeners, closes, items, closeCalls, regAt>>

Put(bus) ==
    /\ main = "run"
    /\ DriverPuts < MaxPuts
    /\ IF bus \in DOMAIN listeners
       THEN /\ Len(tasks) + Len(listeners[bus]) <= MaxTasks
            /\ LET r == PutEffect(tasks, ready, DriverPuts, bus, 0)
               IN  /\ tasks' = r.tasks
                   /\ bg' = r.bg
                   /\ ready' = r.ready
                   /\ events' = r.events
                   /\ putLog' = r.log
            /\ UNCHANGED <<main, err>>
       ELSE /\ err' = "KeyError"
            /\ main' = "crashed"
            /\ UNCHANGED <<tasks, bg, ready, events, putLog>>
    /\ UNCHANGED <<listeners, closes, items, closeCalls, regAt>>

----------------------------------------------------------------------------
(* HEB.register *)

\* Variant: the new listener is also given the last event of the bus that
\* still has an unfinished task.
RegisterReplays(actor, bus) ==
    /\ main = "run"
    /\ Registered < MaxRegs
    /\ bus \in DOMAIN listeners
    /\ listeners' = [listeners EXCEPT ![bus] = Append(@, actor)]
    /\ regAt' = [regAt EXCEPT ![bus] = Append(@, PutsOn(bus))]
    /\ LET evs == {i \in DOMAIN putLog :
                     /\ putLog[i].bus = bus
                     /\ \E t \in DOMAIN tasks :
                            tasks[t].ev = i /\ ~Finished(t)}
       IN  IF evs # {} /\ Len(tasks) < MaxTasks
           THEN LET i == CHOOSE x \in evs : \A y \in evs : y <= x
                IN  /\ tasks' = Append(tasks,
                           [ev |-> i, num |-> putLog[i].num, bus |-> bus,
                            pos |-> Len(listeners[bus]) + 1, actor |-> actor,
                            by |-> 0, status |-> "pending",
                            cbs |-> <<Discard>>])
                    /\ bg' = bg \cup {Len(tasks) + 1}
                    /\ ready' = Append(ready, Cb("step", Len(tasks) + 1, 0))
           ELSE UNCHANGED <<tasks, bg, ready>>
    /\ UNCHANGED <<closes, main, items, closeCalls, err, events, putLog>>

\* Variant: an unknown key is added to the dictionary instead of raising.
RegisterSetDefault(actor, bus) ==
    /\ main = "run"
    /\ Registered < MaxRegs
    /\ listeners' = [b \in DOMAIN listeners \cup {bus} |->
                        IF b = bus
                        THEN Append(IF b \in DOMAIN listeners
                                    THEN listeners[b] ELSE <<>>, actor)
                        ELSE listeners[b]]
    /\ regAt' = [b \in DOMAIN regAt \cup {bus} |->
                    IF b = bus
                    THEN Append(IF b \in DOMAIN regAt
                                THEN regAt[b] ELSE <<>>, PutsOn(bus))
                    ELSE regAt[b]]
    /\ UNCHANGED <<tasks, bg, ready, closes, main, items, closeCalls, err,
                   events, putLog>>

\* Variant: the new listener is put at the head of the list.
RegisterPrepends(actor, bus) ==
    /\ main = "run"
    /\ Registered < MaxRegs
    /\ IF bus \in DOMAIN listeners
       THEN /\ listeners' = [listeners EXCEPT ![bus] = <<actor>> \o @]
            /\ regAt' = [regAt EXCEPT ![bus] = <<PutsOn(bus)>> \o @]
            /\ UNCHANGED <<main, err>>
       ELSE /\ err' = "KeyError"
            /\ main' = "crashed"
            /\ UNCHANGED <<listeners, regAt>>
    /\ UNCHANGED <<tasks, bg, ready, closes, items, closeCalls, events,
                   putLog>>

Register(actor, bus) ==
    /\ main = "run"
    /\ Registered < MaxRegs
    /\ IF bus \in DOMAIN listeners
       THEN /\ listeners' = [listeners EXCEPT ![bus] = Append(@, actor)]
            /\ regAt' = [regAt EXCEPT ![bus] = Append(@, PutsOn(bus))]
            /\ UNCHANGED <<main, err>>
       ELSE /\ err' = "KeyError"
            /\ main' = "crashed"
            /\ UNCHANGED <<listeners, regAt>>
    /\ UNCHANGED <<tasks, bg, ready, closes, items, closeCalls, events,
                   putLog>>

----------------------------------------------------------------------------
(* HEB.close: await asyncio.gather of the tasks in self._background_tasks *)

\* Variant: the wait is never complete at the call, even with no tasks.
NewGatherAlwaysPending(snap) ==
    [snap |-> snap, by |-> 0, nfinished |-> 0, state |-> "pending",
     exc |-> 0, ndriver |-> DriverPuts, regd |-> RegisteredActors,
     returned |-> FALSE, left |-> {}, failed |-> {}, seen |-> <<>>]

\* The gather over the snapshot snap.  With no arguments gather returns a
\* future that is already done, and awaiting it does not suspend.  The
\* record also keeps what the driver observes when close returns: the tasks
\* still unfinished (left), the tasks that failed so far (failed) and
\* Tap.items (seen); ndriver is the number of puts the driver made before
\* the call and regd the set of actors registered at the call; by is the
\* caller of close, 0 for the driver and t for the act invocation t.
NewGather(snap) ==
    [snap |-> snap, by |-> 0, nfinished |-> 0,
     state |-> IF snap = {} THEN "ok" ELSE "pending",
     exc |-> 0, ndriver |-> DriverPuts, regd |-> RegisteredActors,
     returned |-> snap = {},
     left |-> IF snap = {} THEN Unfinished ELSE {},
     failed |-> IF snap = {} THEN Failed ELSE {},
     seen |-> IF snap = {} THEN items ELSE <<>>]

\* gather adds its callback to every task of the snapshot; on a task that is
\* already finished add_done_callback schedules the callback at once.  The
\* set is iterated in an arbitrary order; the callbacks scheduled at once
\* run back to back and their order cannot be observed.
GatherCallbacksAdded(snap, g) ==
    [t \in DOMAIN tasks |->
        IF t \in snap /\ ~Finished(t)
        THEN [tasks[t] EXCEPT !.cbs = Append(@, g)]
        ELSE tasks[t]]

GatherCallbacksReady(snap, g) ==
    LET fin == SetToSeq({t \in snap : Finished(t)})
    IN  [i \in 1..Len(fin) |-> Cb("gcb", fin[i], g)]

\* Variant: close empties the registry once the wait is set up.
CloseResetsListeners ==
    /\ main = "run"
    /\ LET g == Len(closes) + 1
       IN  /\ closes' = Append(closes, NewGather(bg))
           /\ tasks' = GatherCallbacksAdded(bg, g)
           /\ ready' = ready \o GatherCallbacksReady(bg, g)
           /\ main' = IF bg = {} THEN "exited" ELSE "closing"
    /\ listeners' = [b \in DOMAIN listeners |-> <<>>]
    /\ UNCHANGED <<bg, items, closeCalls, err, events, putLog, regAt>>

Close ==
    /\ main = "run"
    /\ LET g == Len(closes) + 1
       IN  /\ closes' = Append(closes, NewGather(bg))
           /\ tasks' = GatherCallbacksAdded(bg, g)
           /\ ready' = ready \o GatherCallbacksReady(bg, g)
           /\ main' = IF bg = {} THEN "exited" ELSE "closing"
    /\ UNCHANGED <<listeners, bg, items, closeCalls, err, events, putLog,
                   regAt>>

\* The await in close is over: close returns, or raises the exception of
\* the gather.
CloseReturns(c) ==
    [c EXCEPT !.returned = TRUE, !.left = Unfinished, !.failed = Failed,
              !.seen = items]

----------------------------------------------------------------------------
(* The driver suspends: await asyncio.sleep(...) *)

Sleep ==
    /\ main = "run"
    /\ main' = "sleep"
    /\ UNCHANGED <<listeners, tasks, bg, ready, closes, items, closeCalls,
                   err, events, putLog, regAt>>

\* Variant: close is given a timeout, whose timer also wakes the driver.
TimerAlsoForClose ==
    /\ main \in {"sleep", "closing"}
    /\ \A i \in DOMAIN ready : ready[i].type # "wake"
    /\ main' = IF main = "sleep" THEN "waking" ELSE main
    /\ ready' = Append(ready, Cb("wake", 0, 0))
    /\ UNCHANGED <<listeners, tasks, bg, closes, items, closeCalls, err,
                   events, putLog, regAt>>

\* The timer of the sleep expires: the loop schedules the driver's wakeup.
Timer ==
    /\ main = "sleep"
    /\ main' = "waking"
    /\ ready' = Append(ready, Cb("wake", 0, 0))
    /\ UNCHANGED <<listeners, tasks, bg, closes, items, closeCalls, err,
                   events, putLog, regAt>>

----------------------------------------------------------------------------
(* The event loop runs the callback at the head of the queue *)

DriverSuspended == main \in {"sleep", "waking", "closing"}

LoopRuns(type) ==
    /\ DriverSuspended
    /\ ready # <<>>
    /\ Head(ready).type = type

\* The done callbacks of a finishing task, as the loop schedules them.
DoneCallbacks(t) ==
    [i \in 1..Len(tasks[t].cbs) |->
        IF tasks[t].cbs[i] = Discard
        THEN Cb("discard", t, 0)
        ELSE Cb("gcb", t, tasks[t].cbs[i])]

\* Incrementor.act (tests/test_bus.py): it runs to its end in one step,
\* since put never suspends.
ActIncrementor(t) ==
    LET num == events[tasks[t].ev].number
        fin == [tasks EXCEPT ![t].status = "done"]
    IN  /\ IF num # None
           THEN /\ Len(tasks) + Len(listeners["Texts"]) <= MaxTasks
                /\ LET r == PutEffect(fin, Tail(ready), num + 1, "Texts", t)
                   IN  /\ tasks' = r.tasks
                       /\ bg' = r.bg
                       /\ ready' = r.ready \o DoneCallbacks(t)
                       /\ events' = r.events
                       /\ putLog' = r.log
           ELSE /\ tasks' = fin
                /\ ready' = Tail(ready) \o DoneCallbacks(t)
                /\ UNCHANGED <<bg, events, putLog>>
        /\ UNCHANGED <<listeners, closes, items, regAt>>

\* Tap.act (tests/test_bus.py)
ActTap(t) ==
    /\ items' = Append(items, events[tasks[t].ev].number)
    /\ tasks' = [tasks EXCEPT ![t].status = "done"]
    /\ ready' = Tail(ready) \o DoneCallbacks(t)
    /\ UNCHANGED <<listeners, bg, closes, events, putLog, regAt>>

\* An act that raises (DeepgramTranscriber.act when the connection fails).
ActRaises(t) ==
    /\ tasks' = [tasks EXCEPT ![t].status = "failed"]
    /\ ready' = Tail(ready) \o DoneCallbacks(t)
    /\ UNCHANGED <<listeners, bg, closes, items, events, putLog, regAt>>

\* An act that awaits I/O before it returns (DeepgramTranscriber.act awaits
\* self.conn.start): its first step suspends it, the step after the I/O
\* completed finishes it.
ActSuspends(t) ==
    /\ IF tasks[t].status = "pending"
       THEN /\ tasks' = [tasks EXCEPT ![t].status = "suspended"]
            /\ ready' = Tail(ready)
       ELSE /\ tasks' = [tasks EXCEPT ![t].status = "done"]
            /\ ready' = Tail(ready) \o DoneCallbacks(t)
    /\ UNCHANGED <<listeners, bg, closes, items, events, putLog, regAt>>

\* act(event, heb) of an actor that calls heb.register(self, Texts).
ActRegisters(t) ==
    /\ Registered < MaxRegs
    /\ listeners' = [listeners EXCEPT !["Texts"] = Append(@, AnyActor)]
    /\ regAt' = [regAt EXCEPT !["Texts"] = Append(@, PutsOn("Texts"))]
    /\ tasks' = [tasks EXCEPT ![t].status = "done"]
    /\ ready' = Tail(ready) \o DoneCallbacks(t)
    /\ UNCHANGED <<bg, closes, events>>

\* act(event, heb) of an actor that awaits heb.close(): the gather is over
\* the in-flight set, of which the calling task is a member, and the task
\* waits for it.
ActCloses(t) ==
    LET g == Len(closes) + 1
    IN  /\ closes' = Append(closes, [NewGather(bg) EXCEPT !.by = t])
        /\ tasks' = [GatherCallbacksAdded(bg, g) EXCEPT
                         ![t].status = "awaiting"]
        /\ ready' = Tail(ready) \o GatherCallbacksReady(bg, g)
        /\ UNCHANGED <<listeners, bg, events, regAt>>

\* The gather the act awaited is complete: its exception propagates through
\* act, or act returns.
ActClosed(t) ==
    LET g == CHOOSE x \in DOMAIN closes : closes[x].by = t
    IN  /\ closes' = [closes EXCEPT ![g] = CloseReturns(@)]
        /\ tasks' = [tasks EXCEPT ![t].status =
                         IF closes[g].state = "exc" THEN "failed" ELSE "done"]
        /\ ready' = Tail(ready) \o DoneCallbacks(t)
        /\ UNCHANGED <<listeners, bg, events, regAt>>

\* act(event, heb) of an actor that assigns to the event it was handed:
\* event.data["number"] += 1, or event.created_on = a time before any event.
ActAssigns(t) ==
    /\ \/ events' = [events EXCEPT ![tasks[t].ev].number = @ + 1]
       \/ events' = [events EXCEPT ![tasks[t].ev].created_on = 0]
    /\ tasks' = [tasks EXCEPT ![t].status = "done"]
    /\ ready' = Tail(ready) \o DoneCallbacks(t)
    /\ UNCHANGED <<listeners, bg, closes, regAt>>

ActAny(t) ==
    /\ IF tasks[t].status = "awaiting"
       THEN ActClosed(t)
       ELSE ActRegisters(t) \/ ActCloses(t) \/ ActAssigns(t)
    /\ UNCHANGED <<items, putLog>>

RunStep ==
    /\ LoopRuns("step")
    /\ LET t == Head(ready).t
       IN  CASE tasks[t].actor = "inc"  -> ActIncrementor(t)
             [] tasks[t].actor = "tap"  -> ActTap(t)
             [] tasks[t].actor = "bad"  -> ActRaises(t)
             [] tasks[t].actor = "slow" -> ActSuspends(t)
             [] tasks[t].actor = AnyActor -> ActAny(t)
    /\ UNCHANGED <<main, closeCalls, err>>

\* The I/O a suspended act awaits completes: the loop schedules its next step.
Resume(t) ==
    /\ DriverSuspended
    /\ tasks[t].status = "suspended"
    /\ tasks' = [tasks EXCEPT ![t].status = "woken"]
    /\ ready' = Append(ready, Cb("step", t, 0))
    /\ UNCHANGED <<listeners, bg, closes, main, items, closeCalls, err,
                   events, putLog, regAt>>

\* Variant: only a task that succeeded is taken out of the set.
RunDiscardOnSuccess ==
    /\ LoopRuns("discard")
    /\ bg' = IF tasks[Head(ready).t].status = "done"
             THEN bg \ {Head(ready).t} ELSE bg
    /\ ready' = Tail(ready)
    /\ UNCHANGED <<listeners, tasks, closes, main, items, closeCalls, err,
                   events, putLog, regAt>>

\* task.add_done_callback(self._background_tasks.discard)
RunDiscard ==
    /\ LoopRuns("discard")
    /\ bg' = bg \ {Head(ready).t}
    /\ ready' = Tail(ready)
    /\ UNCHANGED <<listeners, tasks, closes, main, items, closeCalls, err,
                   events, putLog, regAt>>

\* Variant: the gather completes with the first task that finishes.
GatherCallbackFirst(c, t) ==
    IF c.state # "pending" THEN c
    ELSE IF tasks[t].status = "failed"
         THEN [c EXCEPT !.state = "exc", !.exc = t]
    ELSE [c EXCEPT !.nfinished = @ + 1, !.state = "ok"]

\* Variant: the gather expects one result more than it has tasks.
GatherCallbackOffByOne(c, t) ==
    IF c.state # "pending" THEN c
    ELSE IF tasks[t].status = "failed"
         THEN [c EXCEPT !.state = "exc", !.exc = t]
    ELSE IF c.nfinished + 1 = Cardinality(c.snap) + 1
         THEN [c EXCEPT !.nfinished = @ + 1, !.state = "ok"]
    ELSE [c EXCEPT !.nfinished = @ + 1]

\* gather's callback on one task of its snapshot (return_exceptions is
\* False): the first exception completes the gather at once, otherwise the
\* gather completes when all its tasks have finished.
GatherCallback(c, t) ==
    IF c.state # "pending" THEN c
    ELSE IF tasks[t].status = "failed"
         THEN [c EXCEPT !.state = "exc", !.exc = t]
    ELSE IF c.nfinished + 1 = Cardinality(c.snap)
         THEN [c EXCEPT !.nfinished = @ + 1, !.state = "ok"]
    ELSE [c EXCEPT !.nfinished = @ + 1]

RunGatherCb ==
    /\ LoopRuns("gcb")
    /\ LET g == Head(ready).g
           c == GatherCallback(closes[g], Head(ready).t)
       IN  /\ closes' = [closes EXCEPT ![g] = c]
           /\ ready' = IF closes[g].state = "pending" /\ c.state # "pending"
                       THEN Append(Tail(ready),
                                   IF c.by = 0 THEN Cb("wake", 0, 0)
                                   ELSE Cb("step", c.by, 0))
                       ELSE Tail(ready)
    /\ UNCHANGED <<listeners, tasks, bg, main, items, closeCalls, err,
                   events, putLog, regAt>>

\* The driver resumes: from its sleep, or from the await in close, which
\* then returns or raises the exception of the gather and ends the driver.
RunWake ==
    /\ LoopRuns("wake")
    /\ ready' = Tail(ready)
    /\ main' = IF main = "closing" THEN "exited" ELSE "run"
    /\ IF main = "closing"
       THEN LET g == CHOOSE x \in DOMAIN closes : closes[x].by = 0
            IN  closes' = [closes EXCEPT ![g] = CloseReturns(@)]
       ELSE UNCHANGED closes
    /\ UNCHANGED <<listeners, tasks, bg, items, closeCalls, err, events,
                   putLog, regAt>>

----------------------------------------------------------------------------

Next ==
    \/ \E b \in DriverBuses \cup {NotABus} : Put(b)
    \/ \E r \in Registrations : Register(r[1], r[2])
    \/ \E a \in Actors : Register(a, NotABus)
    \/ Close
    \/ Sleep
    \/ Timer
    \/ RunStep
    \/ \E t \in DOMAIN tasks : Resume(t)
    \/ RunDiscard
    \/ RunGatherCb
    \/ RunWake

Spec == Init /\ [][Next]_vars

\* The event loop is fair: it runs the callback at the head of its queue,
\* and a timer that was set expires.  Fairness of Resume is the hypothesis
\* that the I/O an act awaits completes, so that every act eventually
\* finishes.
Fairness ==
    /\ WF_vars(RunStep)
    /\ WF_vars(RunDiscard)
    /\ WF_vars(RunGatherCb)
    /\ WF_vars(RunWake)
    /\ WF_vars(Timer)
    /\ \A t \in 1..(MaxTasks + 1) : WF_vars(t \in DOMAIN tasks /\ Resume(t))

SpecFair == Init /\ [][Next]_vars /\ Fairness

\* The same driver and loop with the actors of AnyRegistrations.
NextAnyActor ==
    \/ \E b \in DriverBuses : Put(b)
    \/ \E r \in AnyRegistrations : Register(r[1], r[2])
    \/ Close
    \/ Sleep
    \/ Timer
    \/ RunStep
    \/ RunDiscard
    \/ RunGatherCb
    \/ RunWake

SpecAnyActor == Init /\ [][NextAnyActor]_vars

TypeOK ==
    /\ bg \subseteq DOMAIN tasks
    /\ main \in {"run", "sleep", "waking", "closing", "exited", "crashed"}
    /\ Len(tasks) <= MaxTasks

----------------------------------------------------------------------------
(* Properties *)

Returned == {g \in DOMAIN closes : closes[g].returned}

TasksOf(ev) == {t \in DOMAIN tasks : tasks[t].ev = ev}

\* C1: when close returns normally, no act invocation spawned before or
\* during the close is still unfinished.
C1_CloseReturnsAtQuiescence ==
    \A g \in Returned : closes[g].state = "ok" => closes[g].left = {}

\* C2: for every bus B and every K, the N puts made on B while its list held
\* K listeners spawned N*K tasks, one for each (event, list position) pair
\* and bound to the actor at that position; this holds whoever made the puts
\* and however many further puts the spawned invocations made.
C2_OneTaskPerEventAndListener ==
    /\ \A e \in DOMAIN putLog :
          LET b == putLog[e].bus
              k == Len(putLog[e].ls)
              P == {i \in DOMAIN putLog :
                        putLog[i].bus = b /\ Len(putLog[i].ls) = k}
          IN  Cardinality({t \in DOMAIN tasks : tasks[t].ev \in P})
                  = Cardinality(P) * k
    /\ \A i \in DOMAIN putLog : \A pos \in 1..Len(putLog[i].ls) :
          /\ Cardinality({t \in TasksOf(i) : tasks[t].pos = pos}) = 1
          /\ \A t \in TasksOf(i) :
                tasks[t].pos = pos => tasks[t].actor = putLog[i].ls[pos]
    /\ \A t \in DOMAIN tasks :
          /\ tasks[t].ev \in DOMAIN putLog
          /\ tasks[t].pos \in 1..Len(putLog[tasks[t].ev].ls)

\* Two puts on a bus with two listeners, one of whose invocations published
\* a further event.
C2_Witness ==
    \E b \in BusType :
       /\ Len(listeners[b]) = 2
       /\ Cardinality({i \in DOMAIN putLog :
              putLog[i].bus = b /\ Len(putLog[i].ls) = 2}) = 2
       /\ \E i \in DOMAIN putLog : putLog[i].by # 0

\* The setup of tests/test_bus.py: Incrementor alone on Devices, Tap alone
\* on Texts, both registered before the first put, and every put of the
\* driver made on Devices.
Pipeline ==
    /\ listeners = [b \in BusType |->
                      IF b = "Devices" THEN <<"inc">>
                      ELSE IF b = "Texts" THEN <<"tap">> ELSE <<>>]
    /\ \A b \in BusType : \A i \in DOMAIN regAt[b] : regAt[b][i] = 0
    /\ \A i \in DOMAIN putLog : putLog[i].by = 0 => putLog[i].bus = "Devices"

\* C3: in the two-stage pipeline, when close returns after the driver
\* published 0, 1, ..., k-1 on Devices, Tap.items is <<1, 2, ..., k>>.
C3_PipelineDeliversInOrder ==
    Pipeline =>
       \A g \in Returned :
          closes[g].seen = [i \in 1..closes[g].ndriver |-> i]

C3_Witness ==
    /\ Pipeline
    /\ \E g \in Returned :
          /\ closes[g].ndriver = 2
          /\ closes[g].snap # {}
          /\ closes[g].seen = <<1, 2>>

Siblings(t) == TasksOf(tasks[t].ev) \ {t}

StepsQueued(t) == {i \in DOMAIN ready : ready[i] = Cb("step", t, 0)}

\* The put an Incrementor invocation s made, dispatched to every listener
\* the target bus had at that moment.
Dispatched(s) ==
    \E i \in DOMAIN putLog :
       /\ putLog[i].by = s
       /\ putLog[i].bus = "Texts"
       /\ putLog[i].num = tasks[s].num + 1
       /\ \A pos \in 1..Len(putLog[i].ls) :
             \E u \in TasksOf(i) : tasks[u].pos = pos

C5_CloseReportsEveryFailure ==
    \A g \in Returned :
       closes[g].failed \subseteq
          (IF closes[g].state = "exc" THEN {closes[g].exc} ELSE {})

\* C6: when close has returned, the close hook of every actor registered
\* before the call has been invoked exactly once.
C6_CloseHookOncePerActor ==
    \A g \in Returned : \A a \in closes[g].regd :
       a \in HasCloseHook => closeCalls[a] = 1

\* The rank of event i among the events put on its bus.
OrdOn(i) ==
    Cardinality({j \in 1..i : putLog[j].bus = putLog[i].bus})

\* C7: the actor of a registration has an invocation for exactly the events
\* put on its bus after the registration, at every moment of the run.
C7_LateRegistration ==
    \A b \in BusType : \A pos \in DOMAIN listeners[b] :
       \A i \in DOMAIN putLog :
          putLog[i].bus = b =>
             ((\E t \in TasksOf(i) :
                   tasks[t].pos = pos /\ tasks[t].actor = listeners[b][pos])
                 <=> OrdOn(i) > regAt[b][pos])

\* An actor registered while a unit of an earlier event of the bus was in
\* flight, and an event put on the bus afterwards.
C7_Witness ==
    \E b \in BusType : \E pos \in DOMAIN listeners[b] :
     \E i, j \in DOMAIN putLog :
       /\ putLog[i].bus = b
       /\ putLog[j].bus = b
       /\ OrdOn(i) <= regAt[b][pos]
       /\ OrdOn(j) > regAt[b][pos]
       /\ \E t \in TasksOf(i) : ~Finished(t)

LastPut == putLog[Len(putLog)]

\* C8: a put creates one task per listener of the bus, and when it returns
\* each of them is in the in-flight set and scheduled but has not started;
\* the driver goes on without having been suspended.
C8_PutIsFireAndForget ==
    [][Len(putLog') > Len(putLog) =>
         LET new == (Len(tasks) + 1)..Len(tasks')
         IN  /\ Cardinality(new) = Len(listeners[LastPut'.bus])
             /\ \A t \in new :
                   /\ tasks'[t].status = "pending"
                   /\ t \in bg'
                   /\ \E i \in DOMAIN ready' : ready'[i] = Cb("step", t, 0)
             /\ LastPut'.by = 0 => main' = "run"]_vars

C8_Witness ==
    /\ main = "run"
    /\ \E i \in DOMAIN putLog :
          /\ putLog[i].by = 0
          /\ Len(putLog[i].ls) >= 2
          /\ \A t \in TasksOf(i) : tasks[t].status = "pending" /\ t \in bg

\* C9: a put on a bus without listeners creates no task and leaves the
\* in-flight set as it is, and a close called while the in-flight set is
\* empty returns within the call.
C9_NoListenersNoWork ==
    [][/\ (Len(putLog') > Len(putLog) /\ LastPut'.ls = <<>>) =>
             /\ Len(tasks') = Len(tasks)
             /\ bg' = bg
             /\ err' = "none"
             /\ LastPut'.by = 0 => UNCHANGED <<tasks, ready, main>>
       /\ (Len(closes') > Len(closes) /\ bg = {}) =>
             /\ closes'[Len(closes')].returned
             /\ closes'[Len(closes')].state = "ok"
             /\ main' = "exited"
             /\ UNCHANGED <<tasks, bg, ready>>]_vars

C9_Witness ==
    /\ tasks = <<>>
    /\ \E i \in DOMAIN putLog : putLog[i].by = 0 /\ putLog[i].ls = <<>>
    /\ \E g \in Returned : closes[g].snap = {} /\ closes[g].ndriver >= 1

\* C10: register and put called with a value that is not a bus raise, and
\* the call changes neither the registry nor the in-flight set and creates
\* no task; no registration, event or task ever refers to such a value.
C10_UnknownBusFails ==
    /\ [](/\ DOMAIN listeners = BusType
          /\ DOMAIN regAt = BusType
          /\ \A i \in DOMAIN putLog : putLog[i].bus \in BusType
          /\ \A t \in DOMAIN tasks : tasks[t].bus \in BusType)
    /\ [][(Put(NotABus) \/ \E a \in Actors : Register(a, NotABus)) =>
            /\ err' = "KeyError"
            /\ UNCHANGED <<listeners, tasks, bg, ready, putLog, regAt>>]_vars

C10_Witness ==
    /\ err = "KeyError"
    /\ bg # {}
    /\ Registered > 0

\* C11: the tasks of one put are created in the order of the bus's list as
\* it stood at the put, which is the order of registration: the task of an
\* earlier position has the smaller creation index and nothing is created
\* in between; the order in which they finish is not constrained.
C11_SpawnOrderIsRegistrationOrder ==
    /\ \A i \in DOMAIN putLog : \A t, u \in TasksOf(i) :
          /\ t - u = tasks[t].pos - tasks[u].pos
          /\ tasks[t].actor = putLog[i].ls[tasks[t].pos]
    /\ \A b \in BusType : \A p, q \in DOMAIN regAt[b] :
          p < q => regAt[b][p] <= regAt[b][q]
    /\ \A i \in DOMAIN putLog :
          putLog[i].ls = SubSeq(listeners[putLog[i].bus], 1,
                                Len(putLog[i].ls))

\* Of two units of one event, the one created later has finished and the
\* one created first has not.
C11_Witness ==
    \E i \in DOMAIN putLog : \E t, u \in TasksOf(i) :
       /\ tasks[t].pos < tasks[u].pos
       /\ ~Finished(t)
       /\ Finished(u)

\* C12: while an actor re-emits without end (Incrementor registered on
\* Texts, the bus it publishes on, has an invocation that will publish a
\* further event), no call to close has returned.
C12_ReEmitterBlocksClose ==
    (\E t \in DOMAIN tasks :
        /\ tasks[t].actor = "inc"
        /\ tasks[t].bus = "Texts"
        /\ ~Finished(t)
        /\ events[tasks[t].ev].number # None
        /\ \E p \in DOMAIN listeners["Texts"] : listeners["Texts"][p] = "inc")
    => Returned = {}

\* C13: no step of an act invocation changes the listener registry or
\* starts a shutdown.
C13_ActOnlyPublishes ==
    [][RunStep => (listeners' = listeners /\ closes' = closes)]_vars

\* C14: an Event never changes after its construction, and what a listener
\* reads from the event it was handed is what was published.
C14_EventImmutable ==
    /\ [][\A e \in DOMAIN events : events'[e] = events[e]]_vars
    /\ [](\A k \in DOMAIN items :
             \E t \in DOMAIN tasks :
                tasks[t].actor = "tap" /\ items[k] = putLog[tasks[t].ev].num)

DiscardQueued(t) == \E i \in DOMAIN ready : ready[i] = Cb("discard", t, 0)

\* C15: a task is in the in-flight set from its creation until it finishes;
\* once finished, done or failed, it stays in the set exactly as long as its
\* discard callback has not run; the set holds tasks created by put only,
\* and is empty when every task has finished and every callback has run.
C15_InFlightBookkeeping ==
    /\ \A t \in DOMAIN tasks :
          /\ ~Finished(t) => (t \in bg /\ ~DiscardQueued(t))
          /\ Finished(t) => (t \in bg <=> DiscardQueued(t))
          /\ tasks[t].ev \in DOMAIN putLog
    /\ bg \subseteq DOMAIN tasks
    /\ ((\A t \in DOMAIN tasks : Finished(t)) /\ ready = <<>>) => bg = {}

C15_Witness ==
    /\ bg = {}
    /\ ready = <<>>
    /\ \E t, u \in DOMAIN tasks :
          tasks[t].status = "failed" /\ tasks[u].status = "done"

\* C16: every step leaves each bus's list as it is or appends one actor to
\* it, and changes the list of at most one bus; register(actor, bus) appends
\* actor to the list of bus, also when it is in the list already, and
\* leaves the other lists alone.
C16_RegistryAppendOnly ==
    [][/\ DOMAIN listeners' = DOMAIN listeners
       /\ \A b \in DOMAIN listeners :
             \/ listeners'[b] = listeners[b]
             \/ \E a \in Actors : listeners'[b] = Append(listeners[b], a)
       /\ Cardinality({b \in DOMAIN listeners :
                          listeners'[b] # listeners[b]}) <= 1
       /\ \A r \in Registrations :
             (Register(r[1], r[2])) =>
                listeners' = [listeners EXCEPT ![r[2]] = Append(@, r[1])]
      ]_vars

\* An actor registered twice on a bus on which an event was then put, after
\* close has returned.
C16_Witness ==
    /\ Returned # {}
    /\ \E b \in BusType :
          /\ Len(listeners[b]) >= 2
          /\ listeners[b][1] = listeners[b][2]
          /\ \E i \in DOMAIN putLog : putLog[i].bus = b /\ Len(putLog[i].ls) = 2

\* C17: when close raises because a unit it waited on failed, no other unit
\* of its snapshot is still unfinished.
C17_CloseWaitsForSiblings ==
    \A g \in Returned :
       closes[g].state = "exc" => closes[g].left \cap closes[g].snap = {}

C19_PutAfterFailure ==
    [][(Failed # {} /\ Len(putLog') > Len(putLog)) =>
         LET new == (Len(tasks) + 1)..Len(tasks')
             ls  == listeners[LastPut'.bus]
         IN  /\ Cardinality(new) = Len(ls)
             /\ \A p \in DOMAIN ls :
                   \E t \in new :
                      /\ tasks'[t].pos = p
                      /\ tasks'[t].actor = ls[p]
                      /\ tasks'[t].ev = Len(putLog')
                      /\ tasks'[t].status = "pending"
                      /\ t \in bg'
                      /\ Cardinality({i \in DOMAIN ready' :
                             ready'[i] = Cb("step", t, 0)}) = 1
             /\ err' = "none"
             /\ LastPut'.by = 0 => main' = "run"]_vars

\* The driver has put an event on a bus with listeners after an act
\* invocation had failed and had been taken out of the in-flight set.
C19_Witness ==
    /\ main = "run"
    /\ \E t \in Failed : \E i \in DOMAIN putLog :
          /\ t \notin bg
          /\ putLog[i].by = 0
          /\ Len(putLog[i].ls) >= 1
          /\ \A u \in TasksOf(i) : u > t /\ tasks[u].status = "pending"

GatherCbQueued(t, g) == \E i \in DOMAIN ready : ready[i] = Cb("gcb", t, g)

AtTaskBound ==
    /\ ready # <<>>
    /\ Head(ready).type = "step"
    /\ tasks[Head(ready).t].actor = "inc"
    /\ Len(tasks) + Len(listeners["Texts"]) > MaxTasks

\* C21: with a fair loop and every act finishing, a call to close made by
\* the driver eventually returns or raises (in a run that is not cut by the
\* bound on the number of tasks).
C21_CloseEventuallyReturns ==
    (main = "closing") ~> (main = "exited" \/ AtTaskBound)

\* close has returned or raised after it waited for a unit that had been
\* suspended on I/O.
C21_Witness ==
    /\ main = "exited"
    /\ \E g \in Returned :
          /\ closes[g].by = 0
          /\ \E t \in closes[g].snap :
                tasks[t].actor = "slow" /\ Finished(t)

\* The number of entries of a list that are the actor a.
Count(ls, a) == Cardinality({p \in DOMAIN ls : ls[p] = a})

\* C22: an event put on a bus whose list holds an actor m times has m
\* invocations of that actor, one for each entry, whatever the actor's
\* entries on other buses; so an actor registered on several buses has one
\* invocation per entry for every event of each of these buses.
C22_NoDedupAtDispatch ==
    /\ \A i \in DOMAIN putLog : \A a \in Actors :
          Cardinality({t \in TasksOf(i) : tasks[t].actor = a})
             = Count(putLog[i].ls, a)
    /\ \A t \in DOMAIN tasks :
          /\ tasks[t].bus = putLog[tasks[t].ev].bus
          /\ putLog[tasks[t].ev].ls =
                SubSeq(listeners[tasks[t].bus], 1, Len(putLog[tasks[t].ev].ls))

\* An actor registered twice on one bus and once on another has been
\* invoked twice for an event of the first.
C22_Witness ==
    \E a \in Actors : \E b, c \in BusType : \E i \in DOMAIN putLog :
       /\ b # c
       /\ Count(listeners[c], a) >= 1
       /\ putLog[i].bus = b
       /\ Count(putLog[i].ls, a) = 2
       /\ \A t \in TasksOf(i) : tasks[t].actor = a /\ Finished(t)

\* C23: a close called by an act invocation has the calling unit in its
\* snapshot and does not return, the calling unit does not finish, and no
\* other close whose snapshot holds that unit returns.
C23_SelfWaitDeadlock ==
    \A g \in DOMAIN closes :
       closes[g].by # 0 =>
          /\ closes[g].by \in closes[g].snap
          /\ ~(closes[g].returned /\ closes[g].state = "ok")
          /\ ~Finished(closes[g].by)
          /\ \A h \in DOMAIN closes :
                closes[g].by \in closes[h].snap =>
                   ~(closes[h].returned /\ closes[h].state = "ok")

\* C24: a register call changes the list of the named bus and nothing else
\* of the dispatcher: no task, no change of the in-flight set; a put, by the
\* driver or by an act, leaves the registry as it is and adds to the
\* in-flight set exactly the tasks it creates, one per listener of the bus;
\* a close call leaves the registry and the in-flight set as they are and
\* creates no task.
C24_FrameConditions ==
    [][/\ \A r \in Registrations :
             (Register(r[1], r[2])) =>
                /\ \A b \in BusType \ {r[2]} : listeners'[b] = listeners[b]
                /\ listeners'[r[2]] # listeners[r[2]]
                /\ UNCHANGED <<tasks, bg, ready, closes, events, putLog>>
       /\ Len(putLog') > Len(putLog) =>
             /\ listeners' = listeners
             /\ bg \subseteq bg'
             /\ bg' \ bg = (Len(tasks) + 1)..Len(tasks')
             /\ Cardinality(bg' \ bg) = Len(listeners[LastPut'.bus])
             /\ closes' = closes
       /\ Close =>
             /\ listeners' = listeners
             /\ bg' = bg
             /\ Len(tasks') = Len(tasks)
             /\ \A t \in DOMAIN tasks : tasks'[t].status = tasks[t].status
             /\ UNCHANGED <<events, putLog>>
      ]_vars

\* The three operations have all been called: close has returned after a
\* registration and a put that created tasks, one of them for an event that
\* an act published.
C24_Witness ==
    /\ Returned # {}
    /\ Registered >= 2
    /\ \E i, j \in DOMAIN putLog :
          /\ putLog[i].by = 0
          /\ putLog[j].by # 0
          /\ Len(putLog[i].ls) >= 1
          /\ Len(putLog[j].ls) >= 1

====
